---- MODULE Spec2Model ----
(***************************************************************************)
(* Model of the iFrameResponsive PCF control (src/iFrameResponsive/index.ts): *)
(* a button that toggles a viewport-sized overlay holding one iframe.       *)
(*                                                                         *)
(* JavaScript strings are sequences of one-character strings, so that      *)
(* startsWith, includes, trim, split, toLowerCase and parseInt are computed *)
(* on the characters as the code computes them.  An absent property        *)
(* (undefined / null) is the value Null.                                    *)
(***************************************************************************)
EXTENDS Integers, Sequences, FiniteSets, TLC

VARIABLES
    hostPhase,          \* host lifecycle: "constructed", "inited", "destroyed"
    clickContext,       \* parameters now held by the context object buttonClickHandler closed over
    container,          \* this.container is set
    isInitialized,      \* this.isInitialized
    isIframeOpen,       \* this.isIframeOpen
    originalButtonText, \* this.originalButtonText
    button,             \* this.button: the element's textContent, classList, style, click listeners
    overlay,            \* this.iframeContainer and this.iframe: classList, width, heights, src, parent
    created,            \* how many elements document.createElement has produced, per tag
    windowListeners,    \* the window's 'resize' listeners
    timers,             \* number of pending setTimeout callbacks
    viewport,           \* window.innerHeight, documentElement.clientHeight, body.clientHeight
    lastOp,             \* the last callback that ran and what it did
    opens,              \* history: how many times openIframe has run
    timerRuns,          \* history: how many setTimeout callbacks have run
    latestConfig,       \* history: the parameters passed to the most recent updateView
    calc                \* a call of a pure function: its arguments and, once made, its result

vars == <<hostPhase, clickContext, container, isInitialized, isIframeOpen,
          originalButtonText, button, overlay, created, windowListeners, timers,
          viewport, lastOp, opens, timerRuns, latestConfig, calc>>

-----------------------------------------------------------------------------
(* Bounds *)

\* pending one-shot timers the model lets accumulate
MaxTimers == 2
\* times the model lets the widget be opened
MaxOpens == 2

-----------------------------------------------------------------------------
(* Strings *)

\* undefined / null: a one-element sequence no string equals
Null == <<"undefined">>

\* ""
sEmpty == <<>>
\* "Close"
sClose == <<"C", "l", "o", "s", "e">>
\* "Agent1"
sAgent1 == <<"A", "g", "e", "n", "t", "1">>
\* "Go"
sGo == <<"G", "o">>
\* "50%"
s50pct == <<"5", "0", "%">>
\* "80%"
s80pct == <<"8", "0", "%">>
\* "100px"
s100px == <<"1", "0", "0", "p", "x">>
\* "40px"
s40px == <<"4", "0", "p", "x">>
\* "120px"
s120px == <<"1", "2", "0", "p", "x">>
\* "px"
sPx == <<"p", "x">>
\* "#"
sHash == <<"#">>
\* "http://"
sHttp == <<"h", "t", "t", "p", ":", "/", "/">>
\* "https://"
sHttps == <<"h", "t", "t", "p", "s", ":", "/", "/">>
\* "example.com"
sExampleCom == <<"e", "x", "a", "m", "p", "l", "e", ".", "c", "o", "m">>
\* "https://a.io"
sHttpsAIo == <<"h", "t", "t", "p", "s", ":", "/", "/", "a", ".", "i", "o">>
\* "http://a b"
sHttpSpace == <<"h", "t", "t", "p", ":", "/", "/", "a", " ", "b">>
\* "mailto:a"
sMailto == <<"m", "a", "i", "l", "t", "o", ":", "a">>
\* "display"
pDisplay == <<"d", "i", "s", "p", "l", "a", "y">>
\* "visibility"
pVisibility == <<"v", "i", "s", "i", "b", "i", "l", "i", "t", "y">>
\* "opacity"
pOpacity == <<"o", "p", "a", "c", "i", "t", "y">>
\* "padding"
pPadding == <<"p", "a", "d", "d", "i", "n", "g">>
\* "width"
pWidth == <<"w", "i", "d", "t", "h">>
\* "height"
pHeight == <<"h", "e", "i", "g", "h", "t">>
\* "background-color"
pBackgroundColor == <<"b", "a", "c", "k", "g", "r", "o", "u", "n", "d", "-", "c", "o", "l", "o", "r">>
\* "--hover-color"
pHoverColor == <<"-", "-", "h", "o", "v", "e", "r", "-", "c", "o", "l", "o", "r">>
\* "color"
pColor == <<"c", "o", "l", "o", "r">>
\* "font-size"
pFontSize == <<"f", "o", "n", "t", "-", "s", "i", "z", "e">>
\* "font-family"
pFontFamily == <<"f", "o", "n", "t", "-", "f", "a", "m", "i", "l", "y">>
\* "border-width"
pBorderWidth == <<"b", "o", "r", "d", "e", "r", "-", "w", "i", "d", "t", "h">>
\* "border-style"
pBorderStyle == <<"b", "o", "r", "d", "e", "r", "-", "s", "t", "y", "l", "e">>
\* "border-color"
pBorderColor == <<"b", "o", "r", "d", "e", "r", "-", "c", "o", "l", "o", "r">>
\* "border-radius"
pBorderRadius == <<"b", "o", "r", "d", "e", "r", "-", "r", "a", "d", "i", "u", "s">>
\* "flex"
sFlex == <<"f", "l", "e", "x">>
\* "visible"
sVisible == <<"v", "i", "s", "i", "b", "l", "e">>
\* "1"
sOne == <<"1">>
\* "red"
sRed == <<"r", "e", "d">>
\* "#000000"
sBlack == <<"#", "0", "0", "0", "0", "0", "0">>
\* "white"
sWhite == <<"w", "h", "i", "t", "e">>
\* "S"
sSizeS == <<"S">>
\* "xl"
sSizeXl == <<"x", "l">>
\* "12px"
sSize12px == <<"1", "2", "p", "x">>
\* "big"
sSizeBig == <<"b", "i", "g">>
\* "14px"
s14px == <<"1", "4", "p", "x">>
\* "Arial"
sArial == <<"A", "r", "i", "a", "l">>
\* "2px"
s2px == <<"2", "p", "x">>
\* "solid"
sSolid == <<"s", "o", "l", "i", "d">>
\* "blue"
sBlue == <<"b", "l", "u", "e">>
\* "4px"
s4px == <<"4", "p", "x">>
\* "color: red; invalid; font-weight:bold"
sCustomStyle == <<"c", "o", "l", "o", "r", ":", " ", "r", "e", "d", ";", " ", "i", "n", "v", "a", "l", "i", "d", ";", " ", "f", "o", "n", "t", "-", "w", "e", "i", "g", "h", "t", ":", "b", "o", "l", "d">>

\* "Large"
sSizeLarge == <<"L", "a", "r", "g", "e">>
\* "width: 4px"
sCustomWidth == <<"w", "i", "d", "t", "h", ":", " ", "4", "p", "x">>
\* "--x: url(a:b)"
sCustomUrl == <<"-", "-", "x", ":", " ", "u", "r", "l", "(", "a", ":", "b", ")">>

-----------------------------------------------------------------------------
(* JavaScript string and number primitives used by the control *)

\* a value is falsy in `x || d`, `if (x)`, `!x`: undefined, null or ""
Falsy(s) == s = Null \/ s = sEmpty

\* raw || dflt
OrDefault(s, dflt) == IF Falsy(s) THEN dflt ELSE s

\* String.prototype.startsWith
StartsWith(s, p) == Len(s) >= Len(p) /\ SubSeq(s, 1, Len(p)) = p

\* String.prototype.includes
Includes(s, p) == \E i \in 1..(Len(s) - Len(p) + 1) : SubSeq(s, i, i + Len(p) - 1) = p

IsSpace(c) == c = " "

RECURSIVE TrimStart(_)
TrimStart(s) == IF s # <<>> /\ IsSpace(Head(s)) THEN TrimStart(Tail(s)) ELSE s

RECURSIVE TrimEnd(_)
TrimEnd(s) ==
    IF s # <<>> /\ IsSpace(s[Len(s)]) THEN TrimEnd(SubSeq(s, 1, Len(s) - 1)) ELSE s

\* String.prototype.trim
Trim(s) == TrimEnd(TrimStart(s))

UpperAlpha == <<"A","B","C","D","E","F","G","H","I","J","K","L","M",
                "N","O","P","Q","R","S","T","U","V","W","X","Y","Z">>
LowerAlpha == <<"a","b","c","d","e","f","g","h","i","j","k","l","m",
                "n","o","p","q","r","s","t","u","v","w","x","y","z">>
Digits == <<"0","1","2","3","4","5","6","7","8","9">>

IndexIn(c, alphabet) ==
    IF \E i \in 1..Len(alphabet) : alphabet[i] = c
    THEN CHOOSE i \in 1..Len(alphabet) : alphabet[i] = c
    ELSE 0

LowerChar(c) == IF IndexIn(c, UpperAlpha) > 0 THEN LowerAlpha[IndexIn(c, UpperAlpha)] ELSE c

\* String.prototype.toLowerCase
ToLowerCase(s) == [i \in 1..Len(s) |-> LowerChar(s[i])]

\* position of the first occurrence of character c in s, 0 if none
FirstIndex(s, c) ==
    IF \E i \in 1..Len(s) : s[i] = c
    THEN CHOOSE i \in 1..Len(s) : s[i] = c /\ \A j \in 1..(i - 1) : s[j] # c
    ELSE 0

\* String.prototype.split with a one-character separator: every segment, empty ones included
RECURSIVE Split(_, _)
Split(s, c) ==
    LET i == FirstIndex(s, c)
    IN  IF i = 0 THEN <<s>>
        ELSE <<SubSeq(s, 1, i - 1)>> \o Split(SubSeq(s, i + 1, Len(s)), c)

\* String.prototype.replace(pattern, "") with a one-character string pattern: first occurrence only
RemoveFirst(s, c) ==
    LET i == FirstIndex(s, c)
    IN  IF i = 0 THEN s ELSE SubSeq(s, 1, i - 1) \o SubSeq(s, i + 1, Len(s))

\* Number.prototype.toString(10) of a natural number
RECURSIVE ToDecimal(_)
ToDecimal(n) ==
    IF n < 10 THEN <<Digits[n + 1]>> ELSE ToDecimal(n \div 10) \o <<Digits[(n % 10) + 1]>>

HexDigits == <<"0","1","2","3","4","5","6","7","8","9","a","b","c","d","e","f">>

\* Number.prototype.toString(16) of a natural number
RECURSIVE ToHex(_)
ToHex(n) ==
    IF n < 16 THEN <<HexDigits[n + 1]>> ELSE ToHex(n \div 16) \o <<HexDigits[(n % 16) + 1]>>

\* value of a hexadecimal digit, -1 for any other character
HexValue(c) == IndexIn(LowerChar(c), HexDigits) - 1

\* value of the longest prefix of hexadecimal digits of s, starting from acc
RECURSIVE HexPrefix(_, _)
HexPrefix(s, acc) ==
    IF s # <<>> /\ HexValue(Head(s)) >= 0
    THEN HexPrefix(Tail(s), 16 * acc + HexValue(Head(s)))
    ELSE acc

\* parseInt(s, 16): leading white space, a sign and a 0x prefix are accepted, the
\* longest run of hex digits is read, and NaN results when there is none
ParseIntHex(s) ==
    LET t    == TrimStart(s)
        neg  == t # <<>> /\ Head(t) = "-"
        u    == IF t # <<>> /\ Head(t) \in {"-", "+"} THEN Tail(t) ELSE t
        pre  == Len(u) >= 2 /\ u[1] = "0" /\ u[2] \in {"x", "X"}
        body == IF pre THEN SubSeq(u, 3, Len(u)) ELSE u
        mag  == HexPrefix(body, 0)
    IN  IF body = <<>> \/ HexValue(Head(body)) < 0
        THEN [nan |-> TRUE, n |-> 0]
        ELSE [nan |-> FALSE, n |-> IF neg THEN 0 - mag ELSE mag]

\* ToInt32, the conversion every bitwise operator applies to its operands: NaN becomes 0;
\* a number of at most seven hex digits lies within the int32 range and is kept
ToInt32(x) == IF x.nan THEN 0 ELSE x.n

\* x >> k (sign-propagating)
ShiftRight(x, k) == ToInt32(x) \div (2 ^ k)

\* n & 0xFF for an int32 n
LowByte(n) == n % 256

\* Math.round(2.55 * percent) for an integer percent in 0..100.  The product is an
\* IEEE-754 double: it is the exact 255 * percent / 100 rounded half up, except at
\* percent 50 and 90, where the double product lies just below the half
\* (127.49999999999999 and 229.49999999999997) and is rounded down.
RoundAmt(percent) ==
    IF percent \in {50, 90} THEN (255 * percent) \div 100
    ELSE (255 * percent + 50) \div 100

\* (mutant: the upper limit is not applied)
ClampChannel_NoUpper(v) == IF v < 1 THEN 0 ELSE v

\* R < 255 ? R < 1 ? 0 : R : 255
ClampChannel(v) == IF v < 255 THEN (IF v < 1 THEN 0 ELSE v) ELSE 255

\* darkenColor(color, percent)
darkenColor(color, percent) ==
    IF StartsWith(color, sHash)
    THEN LET num == ParseIntHex(RemoveFirst(color, "#"))
             amt == RoundAmt(percent)
             R   == ShiftRight(num, 16) + amt
             G   == LowByte(ShiftRight(num, 8)) + amt
             B   == LowByte(ToInt32(num)) + amt
             hex == ToHex(16777216 + ClampChannel(R) * 65536
                          + ClampChannel(G) * 256 + ClampChannel(B))
         IN  sHash \o SubSeq(hex, 2, Len(hex))
    ELSE color

-----------------------------------------------------------------------------
(* new URL(url): whether the WHATWG URL parser accepts url without a base *)

IsAlpha(c) == IndexIn(c, UpperAlpha) > 0 \/ IndexIn(c, LowerAlpha) > 0
IsSchemeChar(c) == IsAlpha(c) \/ IndexIn(c, Digits) > 0 \/ c \in {"+", "-", "."}

\* schemes whose URLs need a host
SpecialSchemes == {<<"h","t","t","p">>, <<"h","t","t","p","s">>, <<"f","t","p">>,
                   <<"w","s">>, <<"w","s","s">>}

RECURSIVE SkipSlashes(_)
SkipSlashes(s) == IF s # <<>> /\ Head(s) \in {"/", "\\"} THEN SkipSlashes(Tail(s)) ELSE s

\* the prefix of s before the first character of stops
RECURSIVE UpTo(_, _)
UpTo(s, stops) == IF s = <<>> \/ Head(s) \in stops THEN <<>> ELSE <<Head(s)>> \o UpTo(Tail(s), stops)

UrlParses(url) ==
    LET s      == Trim(url)
        colon  == FirstIndex(s, ":")
        scheme == ToLowerCase(SubSeq(s, 1, colon - 1))
        rest   == SubSeq(s, colon + 1, Len(s))
        host   == UpTo(UpTo(SkipSlashes(rest), {"/", "\\", "?", "#"}), {":"})
    IN  /\ colon > 1
        /\ IsAlpha(s[1])
        /\ \A i \in 2..(colon - 1) : IsSchemeChar(s[i])
        /\ scheme \in SpecialSchemes => (host # <<>> /\ \A i \in 1..Len(host) : ~IsSpace(host[i]))

\* openIframe's URL validation: the value assigned to iframe.src
\* (mutant: the scheme is prepended whenever parsing fails)
NormalizeUrl_AlwaysPrefix(url) == IF UrlParses(url) THEN url ELSE sHttps \o url

NormalizeUrl(url) ==
    IF UrlParses(url) THEN url
    ELSE IF ~StartsWith(url, sHttp) /\ ~StartsWith(url, sHttps) THEN sHttps \o url
    ELSE url

-----------------------------------------------------------------------------
(* Configuration: context.parameters.<name>.raw, Null when the property is absent *)

BaseConfig ==
    [targetUrl |-> Null, buttonText |-> Null, buttonSize |-> Null,
     buttonWidth |-> Null, buttonHeight |-> Null, buttonColor |-> Null,
     buttonTextColor |-> Null, buttonFontSize |-> Null, buttonFontFamily |-> Null,
     buttonBorderWidth |-> Null, buttonBorderStyle |-> Null, buttonBorderColor |-> Null,
     buttonBorderRadius |-> Null, buttonCustomStyle |-> Null, iframeWidth |-> Null]

\* target URLs: absent, empty, no scheme, absolute, http-prefixed but unparsable,
\* absolute with another scheme
TargetUrls == {Null, sEmpty, sExampleCom, sHttpsAIo, sHttpSpace, sMailto}

\* the configurations the host supplies in the lifecycle specification
Configs ==
    {[BaseConfig EXCEPT !.targetUrl = u] : u \in TargetUrls}
    \cup {[BaseConfig EXCEPT !.targetUrl = sExampleCom, !.buttonText = t] : t \in {sGo, sClose}}
    \cup {[BaseConfig EXCEPT !.buttonColor = sRed, !.iframeWidth = s80pct]}

\* the configurations the host supplies in the styling specification
StyleConfigs ==
    {[BaseConfig EXCEPT !.buttonSize = z] : z \in {sEmpty, sSizeS, sSizeXl, sSizeLarge, sSize12px, sSizeBig}}
    \cup {[BaseConfig EXCEPT !.buttonSize = sSizeS, !.buttonWidth = s120px],
          [BaseConfig EXCEPT !.buttonWidth = <<" ">>, !.buttonHeight = s120px],
          [BaseConfig EXCEPT !.buttonColor = sBlack, !.buttonTextColor = sWhite],
          [BaseConfig EXCEPT !.buttonColor = sRed],
          [BaseConfig EXCEPT !.buttonFontSize = s14px, !.buttonFontFamily = sArial],
          [BaseConfig EXCEPT !.buttonBorderWidth = s2px, !.buttonBorderStyle = sSolid,
                             !.buttonBorderColor = sBlue, !.buttonBorderRadius = s4px],
          [BaseConfig EXCEPT !.buttonCustomStyle = sCustomStyle],
          [BaseConfig EXCEPT !.buttonCustomStyle = sCustomWidth],
          BaseConfig}

\* window.innerHeight, document.documentElement.clientHeight, document.body.clientHeight
Viewports ==
    {[innerHeight |-> 600, docHeight |-> 600, bodyHeight |-> 600],
     [innerHeight |-> 0,   docHeight |-> 0,   bodyHeight |-> 720]}

-----------------------------------------------------------------------------
(* DOM elements *)

\* element.style: property name -> value and priority
EmptyStyle == [p \in {} |-> [value |-> sEmpty, important |-> FALSE]]

\* (mutant: the priority argument is dropped)
SetProp_NoPriority(style, prop, value, important) ==
    [q \in (DOMAIN style) \cup {prop} |->
        IF q = prop THEN [value |-> value, important |-> FALSE] ELSE style[q]]

\* style.setProperty(prop, value, priority) and style.<prop> = value
SetProp(style, prop, value, important) ==
    [q \in (DOMAIN style) \cup {prop} |->
        IF q = prop THEN [value |-> value, important |-> important] ELSE style[q]]

\* this.button before createUI (undefined)
NoButton ==
    [exists |-> FALSE, textContent |-> Null, classList |-> {}, style |-> EmptyStyle,
     clickListeners |-> 0, inContainer |-> FALSE]

\* this.iframeContainer and this.iframe before createUI (undefined)
NoOverlay ==
    [exists |-> FALSE, classList |-> {}, width |-> Null, height |-> Null,
     iframeHeight |-> Null, src |-> Null, attached |-> FALSE]

\* (mutant: one class is missing from the list that is removed)
SizeClasses_MissingExtraLarge == {"size-small", "size-medium", "size-large"}

\* the size classes applyButtonStyling removes before it adds one
SizeClasses == {"size-small", "size-medium", "size-large", "size-extra-large"}

\* the listener identity of the arrow-function property this.setDynamicHeight
ResizeListener == "setDynamicHeight"

\* outcome record of a callback
Op(name) == [op |-> name, alert |-> FALSE, threw |-> FALSE, handled |-> TRUE]

-----------------------------------------------------------------------------
(* applyButtonStyling *)

\* the size class a lower-cased buttonSize keyword maps to, "" when it maps to none
SizeClassOf(size) ==
    IF size \in {<<"s","m","a","l","l">>, <<"s">>} THEN "size-small"
    ELSE IF size \in {<<"m","e","d","i","u","m">>, <<"m">>} THEN "size-medium"
    ELSE IF size \in {<<"l","a","r","g","e">>, <<"l">>} THEN "size-large"
    ELSE IF size \in {<<"e","x","t","r","a","-","l","a","r","g","e">>, <<"x","l">>}
         THEN "size-extra-large"
    ELSE ""

\* style.<prop> = value, done only when the configured value is truthy
SetIfPresent(style, prop, value) ==
    IF Falsy(value) THEN style ELSE SetProp(style, prop, value, FALSE)

\* one segment of buttonCustomStyle: split on ':', trim, destructure the first two parts
ApplyCustomSegment(style, segment) ==
    LET parts    == Split(segment, ":")
        property == Trim(parts[1])
        value    == IF Len(parts) >= 2 THEN Trim(parts[2]) ELSE Null
    IN  IF ~Falsy(property) /\ ~Falsy(value)
        THEN SetProp(style, property, value, FALSE)
        ELSE style

RECURSIVE ApplyCustomSegments(_, _)
ApplyCustomSegments(style, segments) ==
    IF segments = <<>> THEN style
    ELSE ApplyCustomSegments(ApplyCustomSegment(style, Head(segments)), Tail(segments))

\* applyButtonStyling(context) on button element b
applyButtonStyling(b, cfg) ==
    IF ~b.exists THEN b
    ELSE
    LET buttonSize == IF cfg.buttonSize = Null THEN Null ELSE ToLowerCase(cfg.buttonSize)
        sizeClass  == IF Falsy(buttonSize) THEN "" ELSE SizeClassOf(buttonSize)
        classes    == (b.classList \ SizeClasses)
                      \cup (IF sizeClass = "" THEN {} ELSE {sizeClass})
        s1  == IF ~Falsy(buttonSize) /\ sizeClass = "" /\ Includes(buttonSize, sPx)
               THEN SetProp(b.style, pPadding, buttonSize, FALSE)
               ELSE b.style
        buttonWidth  == OrDefault(cfg.buttonWidth, s100px)
        buttonHeight == OrDefault(cfg.buttonHeight, s40px)
        s2  == IF Trim(buttonWidth) # sEmpty THEN SetProp(s1, pWidth, buttonWidth, TRUE) ELSE s1
        s3  == IF Trim(buttonHeight) # sEmpty THEN SetProp(s2, pHeight, buttonHeight, TRUE) ELSE s2
        s4  == IF Falsy(cfg.buttonColor) THEN s3
               ELSE SetProp(SetProp(s3, pBackgroundColor, cfg.buttonColor, FALSE),
                            pHoverColor, darkenColor(cfg.buttonColor, 20), FALSE)
        s5  == SetIfPresent(s4, pColor, cfg.buttonTextColor)
        s6  == SetIfPresent(s5, pFontSize, cfg.buttonFontSize)
        s7  == SetIfPresent(s6, pFontFamily, cfg.buttonFontFamily)
        s8  == SetIfPresent(s7, pBorderWidth, cfg.buttonBorderWidth)
        s9  == SetIfPresent(s8, pBorderStyle, cfg.buttonBorderStyle)
        s10 == SetIfPresent(s9, pBorderColor, cfg.buttonBorderColor)
        s11 == SetIfPresent(s10, pBorderRadius, cfg.buttonBorderRadius)
        s12 == IF Falsy(cfg.buttonCustomStyle) THEN s11
               ELSE ApplyCustomSegments(s11, Split(cfg.buttonCustomStyle, ";"))
    IN  [b EXCEPT !.classList = classes, !.style = s12]

-----------------------------------------------------------------------------
(* createUI *)

\* the button element createUI builds, with its click listener registered
createButton(cfg) ==
    [exists |-> TRUE,
     textContent |-> OrDefault(cfg.buttonText, sAgent1),
     classList |-> {"iciframe-button"},
     style |-> SetProp(SetProp(SetProp(EmptyStyle, pDisplay, sFlex, FALSE),
                               pVisibility, sVisible, FALSE), pOpacity, sOne, FALSE),
     clickListeners |-> 1,
     inContainer |-> TRUE]

\* the overlay container and its iframe, appended to document.body
createOverlay(cfg) ==
    [exists |-> TRUE,
     classList |-> {"iciframe-iframe-container"},
     width |-> OrDefault(cfg.iframeWidth, s50pct),
     height |-> Null, iframeHeight |-> Null,
     src |-> sEmpty,
     attached |-> TRUE]

\* updateView's guard on createUI
\* (mutant: the UI is rebuilt on every refresh)
NeedsCreate_Always(initialized) == TRUE

NeedsCreate(initialized) == ~initialized

\* the label updateView gives the button
\* (mutant: the configured text is written whatever the open state)
LabelFor_IgnoresOpen(open, original) == original

LabelFor(open, original) == IF open THEN sClose ELSE original

-----------------------------------------------------------------------------
(* Event listener lists *)

\* addEventListener: a listener already in the list is not added again
AddEventListener(list, l) ==
    IF \E i \in 1..Len(list) : list[i] = l THEN list ELSE Append(list, l)

\* removeEventListener: the matching listener, if any, is removed
RemoveEventListener(list, l) == SelectSeq(list, LAMBDA x : x # l)

\* how many times l is registered in list
Registered(list, l) == Cardinality({i \in 1..Len(list) : list[i] = l})

-----------------------------------------------------------------------------
(* State after construction *)

\* no pure-function call in progress
NoCalc == [fn |-> "none", arg |-> sEmpty, percent |-> 0, out |-> Null, done |-> TRUE]

\* the widget after construction
WidgetInit ==
    /\ opens = 0
    /\ timerRuns = 0
    /\ latestConfig = BaseConfig
    /\ hostPhase = "constructed"
    /\ clickContext = BaseConfig
    /\ container = FALSE
    /\ isInitialized = FALSE
    /\ isIframeOpen = FALSE
    /\ originalButtonText = Null
    /\ button = NoButton
    /\ overlay = NoOverlay
    /\ created = [button |-> 0, div |-> 0, iframe |-> 0, clickHandler |-> 0]
    /\ windowListeners = <<>>
    /\ timers = 0
    /\ viewport \in Viewports
    /\ lastOp = Op("constructor")

Init == WidgetInit /\ calc = NoCalc

-----------------------------------------------------------------------------
(* init *)

HostInit ==
    /\ hostPhase = "constructed"
    /\ hostPhase' = "inited"
    /\ container' = TRUE
    /\ lastOp' = Op("init")
    /\ UNCHANGED <<clickContext, isInitialized, isIframeOpen, originalButtonText, button,
                   overlay, created, windowListeners, timers, viewport>>
    /\ UNCHANGED <<opens, timerRuns, latestConfig, calc>>

-----------------------------------------------------------------------------
(* updateView *)

\* updateView(context); sameObject says whether the host passes the context object
\* that createUI's click handler closed over (its parameters are then the new ones)
\* or another object.  The host calls init once, then updateView any number of times,
\* then destroy, and nothing after destroy; clicks, window resizes and timers are
\* browser events and arrive at any time.
UpdateView(sameObject, cfg) ==
    /\ hostPhase = "inited"
    /\ LET create == NeedsCreate(isInitialized)
           b0   == IF create THEN createButton(cfg) ELSE button
           o0   == IF create THEN createOverlay(cfg) ELSE overlay
           text == OrDefault(cfg.buttonText, sAgent1)
           b1   == IF b0.exists
                   THEN [b0 EXCEPT !.textContent = LabelFor(isIframeOpen, text)]
                   ELSE b0
           o1   == IF o0.exists
                   THEN [o0 EXCEPT !.width = OrDefault(cfg.iframeWidth, s50pct)]
                   ELSE o0
       IN  /\ created' = IF create
                         THEN [button |-> created.button + 1, div |-> created.div + 1,
                               iframe |-> created.iframe + 1,
                               clickHandler |-> created.clickHandler + 1]
                         ELSE created
           /\ clickContext' = IF create \/ sameObject THEN cfg ELSE clickContext
           /\ originalButtonText' = text
           /\ button' = applyButtonStyling(b1, cfg)
           /\ overlay' = o1
    /\ isInitialized' = TRUE
    /\ lastOp' = Op("updateView")
    /\ latestConfig' = cfg
    /\ UNCHANGED <<hostPhase, container, isIframeOpen, windowListeners, timers, viewport>>
    /\ UNCHANGED <<opens, timerRuns, calc>>

-----------------------------------------------------------------------------
(* setDynamicHeight *)

\* window.innerHeight || document.documentElement.clientHeight || document.body.clientHeight
WindowHeight(v) ==
    IF v.innerHeight # 0 THEN v.innerHeight
    ELSE IF v.docHeight # 0 THEN v.docHeight
    ELSE v.bodyHeight

\* setDynamicHeight on overlay o with the window as v
setDynamicHeight(o, v) ==
    IF o.exists
    THEN [o EXCEPT !.height = ToDecimal(WindowHeight(v)) \o sPx,
                   !.iframeHeight = ToDecimal(WindowHeight(v)) \o sPx]
    ELSE o

-----------------------------------------------------------------------------
(* toggleIframe, openIframe, closeIframe *)

\* toggleIframe's test of targetUrl
\* (mutant: only an absent URL is rejected, an empty one is not)
MissingUrl_OnlyAbsent(targetUrl) == targetUrl = Null

MissingUrl(targetUrl) == Falsy(targetUrl)

\* openIframe(url)
openIframe(url) ==
    /\ timers < MaxTimers
    /\ opens < MaxOpens
    /\ opens' = opens + 1
    /\ overlay' = [overlay EXCEPT !.src = NormalizeUrl(url),
                                  !.classList = @ \cup {"show"}]
    /\ isIframeOpen' = TRUE
    /\ timers' = timers + 1
    /\ button' = [button EXCEPT !.textContent = sClose]
    /\ windowListeners' = AddEventListener(windowListeners, ResizeListener)

\* (mutant: the resize listener is left registered on close)
closeIframe_KeepsListener ==
    /\ overlay' = [overlay EXCEPT !.classList = @ \ {"show"}, !.src = sEmpty]
    /\ isIframeOpen' = FALSE
    /\ windowListeners' = windowListeners
    /\ button' = IF button.exists
                 THEN [button EXCEPT !.textContent = originalButtonText]
                 ELSE button
    /\ UNCHANGED <<timers, opens>>

\* (mutant: the iframe source is kept on close)
closeIframe_KeepsSrc ==
    /\ overlay' = [overlay EXCEPT !.classList = @ \ {"show"}]
    /\ isIframeOpen' = FALSE
    /\ windowListeners' = RemoveEventListener(windowListeners, ResizeListener)
    /\ button' = IF button.exists
                 THEN [button EXCEPT !.textContent = originalButtonText]
                 ELSE button
    /\ UNCHANGED <<timers, opens>>

\* (mutant: closing clears the pending timers)
closeIframe_CancelsTimer ==
    /\ overlay' = [overlay EXCEPT !.classList = @ \ {"show"}, !.src = sEmpty]
    /\ isIframeOpen' = FALSE
    /\ windowListeners' = RemoveEventListener(windowListeners, ResizeListener)
    /\ button' = IF button.exists
                 THEN [button EXCEPT !.textContent = originalButtonText]
                 ELSE button
    /\ timers' = 0
    /\ UNCHANGED opens

\* closeIframe(context)
closeIframe ==
    /\ overlay' = [overlay EXCEPT !.classList = @ \ {"show"}, !.src = sEmpty]
    /\ isIframeOpen' = FALSE
    /\ windowListeners' = RemoveEventListener(windowListeners, ResizeListener)
    /\ button' = IF button.exists
                 THEN [button EXCEPT !.textContent = originalButtonText]
                 ELSE button
    /\ UNCHANGED <<timers, opens>>

\* toggleIframe(context), context being the object the click handler closed over
toggleIframe(context) ==
    IF MissingUrl(context.targetUrl)
    THEN /\ lastOp' = [Op("click") EXCEPT !.alert = TRUE]
         /\ UNCHANGED <<overlay, isIframeOpen, windowListeners, button, timers, opens>>
    ELSE /\ lastOp' = Op("click")
         /\ IF isIframeOpen THEN closeIframe ELSE openIframe(context.targetUrl)

\* a click on the button: buttonClickHandler runs if it is registered
Click ==
    /\ button.exists
    /\ IF button.clickListeners > 0
       THEN toggleIframe(clickContext)
       ELSE /\ lastOp' = [Op("click") EXCEPT !.handled = FALSE]
            /\ UNCHANGED <<overlay, isIframeOpen, windowListeners, button, timers, opens>>
    /\ UNCHANGED <<hostPhase, clickContext, container, isInitialized, originalButtonText,
                   created, viewport>>
    /\ UNCHANGED <<timerRuns, latestConfig, calc>>

-----------------------------------------------------------------------------
(* window resize and the deferred timer *)

\* the window is resized to v; the resize listener runs if it is registered
Resize(v) ==
    /\ viewport' = v
    /\ IF Registered(windowListeners, ResizeListener) > 0
       THEN /\ overlay' = setDynamicHeight(overlay, v)
            /\ lastOp' = Op("resize")
       ELSE /\ overlay' = overlay
            /\ lastOp' = [Op("resize") EXCEPT !.handled = FALSE]
    /\ UNCHANGED <<hostPhase, clickContext, container, isInitialized, isIframeOpen,
                   originalButtonText, button, created, windowListeners, timers>>
    /\ UNCHANGED <<opens, timerRuns, latestConfig, calc>>

\* a setTimeout callback scheduled by openIframe fires
TimerFire ==
    /\ timers > 0
    /\ timers' = timers - 1
    /\ overlay' = setDynamicHeight(overlay, viewport)
    /\ lastOp' = Op("timer")
    /\ UNCHANGED <<hostPhase, clickContext, container, isInitialized, isIframeOpen,
                   originalButtonText, button, created, windowListeners, viewport>>
    /\ timerRuns' = timerRuns + 1
    /\ UNCHANGED <<opens, latestConfig, calc>>

-----------------------------------------------------------------------------
(* destroy *)

\* destroy's guard on removing the click listener: this.button && this.buttonClickHandler
\* (mutant: the listener is removed unconditionally)
CanRemoveClick_NoGuard(b, handlers) == TRUE

CanRemoveClick(b, handlers) == b.exists /\ handlers > 0

\* destroy's removal of the overlay from its parent
\* (mutant: the overlay is left in the document)
DetachOverlay_Skip(o) == o

DetachOverlay(o) == IF o.exists /\ o.attached THEN [o EXCEPT !.attached = FALSE] ELSE o

\* (mutant: teardown also closes the widget)
Destroy_Closes ==
    /\ hostPhase # "destroyed"
    /\ hostPhase' = "destroyed"
    /\ button' = IF button.exists THEN [button EXCEPT !.clickListeners = 0] ELSE button
    /\ windowListeners' = RemoveEventListener(windowListeners, ResizeListener)
    /\ overlay' = DetachOverlay(overlay)
    /\ isIframeOpen' = FALSE
    /\ lastOp' = Op("destroy")
    /\ UNCHANGED <<clickContext, container, isInitialized, originalButtonText,
                   created, timers, viewport>>
    /\ UNCHANGED <<opens, timerRuns, latestConfig, calc>>

\* destroy(); calling a method of an undefined this.button throws and ends it
Destroy ==
    /\ hostPhase # "destroyed"
    /\ hostPhase' = "destroyed"
    /\ IF CanRemoveClick(button, created.clickHandler) /\ ~button.exists
       THEN /\ lastOp' = [Op("destroy") EXCEPT !.threw = TRUE]
            /\ UNCHANGED <<button, windowListeners, overlay>>
       ELSE /\ lastOp' = Op("destroy")
            /\ button' = IF CanRemoveClick(button, created.clickHandler)
                         THEN [button EXCEPT !.clickListeners = 0]
                         ELSE button
            /\ windowListeners' = RemoveEventListener(windowListeners, ResizeListener)
            /\ overlay' = DetachOverlay(overlay)
    /\ UNCHANGED <<clickContext, container, isInitialized, isIframeOpen,
                   originalButtonText, created, timers, viewport>>
    /\ UNCHANGED <<opens, timerRuns, latestConfig, calc>>

-----------------------------------------------------------------------------
(* Specifications *)

\* the whole lifecycle: host callbacks, clicks, window resizes, timers
Next ==
    \/ HostInit
    \/ \E sameObject \in BOOLEAN, cfg \in Configs : UpdateView(sameObject, cfg)
    \/ Click
    \/ \E v \in Viewports : Resize(v)
    \/ TimerFire
    \/ Destroy

Spec == Init /\ [][Next]_vars

\* refreshes only, over configurations that exercise every styling rule
NextStyle ==
    \/ HostInit
    \/ \E cfg \in StyleConfigs : UpdateView(TRUE, cfg)

SpecStyle == Init /\ [][NextStyle]_vars

-----------------------------------------------------------------------------
(* Calls of the pure functions on their own *)

\* two-digit channel values, in both letter cases
ChannelPairs == {<<"0","0">>, <<"0","a">>, <<"7","F">>, <<"f","f">>}

\* #RRGGBB colours
HexColors == {sHash \o r \o g \o b : r \in ChannelPairs, g \in ChannelPairs, b \in ChannelPairs}

\* strings that are not #RRGGBB colours: a colour name, "#" and non-hex characters,
\* "#RGB", five and seven hex digits
OtherColors ==
    {sRed, <<"#","z","z","z">>, <<"#","a","b","c">>, <<"#","1","2","3","4","5">>,
     <<"#","1","2","3","4","5","6","7">>}

\* custom style strings: the documented example, a single pair, a value holding a
\* colon, segments with an empty property or an empty value
CustomStyles ==
    {sCustomStyle, sCustomWidth, sCustomUrl,
     <<":"," ","r","e","d",";","c","o","l","o","r",":",";","a",":","b">>}

PureCalls ==
    {[fn |-> "darkenColor", arg |-> c, percent |-> p, out |-> Null, done |-> FALSE] :
        c \in HexColors \cup OtherColors, p \in 0..100}
    \cup {[fn |-> "customStyle", arg |-> s, percent |-> 0, out |-> Null, done |-> FALSE] :
        s \in CustomStyles}

InitPure == WidgetInit /\ calc \in PureCalls

widgetVars == <<hostPhase, clickContext, container, isInitialized, isIframeOpen,
                originalButtonText, button, overlay, created, windowListeners, timers,
                viewport, lastOp, opens, timerRuns, latestConfig>>

\* darkenColor(color, percent) is called
CallDarkenColor ==
    /\ calc.fn = "darkenColor"
    /\ ~calc.done
    /\ calc' = [calc EXCEPT !.out = darkenColor(calc.arg, calc.percent), !.done = TRUE]
    /\ UNCHANGED widgetVars

\* the custom-style part of applyButtonStyling runs on an element without styles
CallApplyCustomStyle ==
    /\ calc.fn = "customStyle"
    /\ ~calc.done
    /\ ~Falsy(calc.arg)
    /\ calc' = [calc EXCEPT !.out = ApplyCustomSegments(EmptyStyle, Split(calc.arg, ";")),
                            !.done = TRUE]
    /\ UNCHANGED widgetVars

NextPure == CallDarkenColor \/ CallApplyCustomStyle

SpecPure == InitPure /\ [][NextPure]_vars

\* the configurations the host supplies in the timer specification
TimerConfigs ==
    {[BaseConfig EXCEPT !.targetUrl = u] : u \in {sEmpty, sExampleCom}}

\* the lifecycle with the browser's guarantee that a scheduled timeout callback runs
NextTimer ==
    \/ HostInit
    \/ \E cfg \in TimerConfigs : UpdateView(TRUE, cfg)
    \/ Click
    \/ \E v \in Viewports : Resize(v)
    \/ TimerFire
    \/ Destroy

SpecTimer == Init /\ [][NextTimer]_vars /\ WF_vars(TimerFire)

-----------------------------------------------------------------------------
(* Properties *)

\* the fields of the widget object and the DOM it owns
widgetState == <<container, isInitialized, isIframeOpen, originalButtonText, button,
                 overlay, created, windowListeners, timers, clickContext>>

\* the step is a click whose handler ran toggleIframe
ToggleStep == lastOp'.op = "click" /\ lastOp'.handled

\* C1: once the button exists, its label is "Close" when the widget is open and
\* originalButtonText when it is closed.
C1_LabelMatchesOpenState ==
    button.exists =>
        button.textContent = (IF isIframeOpen THEN sClose ELSE originalButtonText)

\* a refresh with a new button text arrived while the widget was open
C1_Witness ==
    /\ lastOp.op = "updateView"
    /\ isIframeOpen
    /\ originalButtonText = sGo
    /\ button.textContent = sClose

\* C2: a toggle while the widget is open closes it whatever targetUrl is: afterwards
\* isOpen is false, the overlay is hidden, the iframe source is empty, the label is
\* originalButtonText and the resize listener is detached.
C2_ToggleWhileOpenCloses ==
    [][(ToggleStep /\ isIframeOpen) =>
          /\ ~isIframeOpen'
          /\ "show" \notin overlay'.classList
          /\ overlay'.src = sEmpty
          /\ button'.textContent = originalButtonText'
          /\ Registered(windowListeners', ResizeListener) = 0]_vars

\* C3: a toggle while closed with a missing or empty targetUrl shows the alert and
\* changes nothing: isOpen, label, iframe source, overlay, listeners and timers stay.
C3_EmptyUrlToggleChangesNothing ==
    [][(ToggleStep /\ ~isIframeOpen
          /\ (clickContext.targetUrl = Null \/ clickContext.targetUrl = sEmpty)) =>
          /\ lastOp'.alert
          /\ ~isIframeOpen'
          /\ UNCHANGED widgetState]_vars

\* a click with the empty string as targetUrl raised the alert while closed
C3_Witness ==
    /\ lastOp.op = "click"
    /\ lastOp.alert
    /\ ~isIframeOpen
    /\ clickContext.targetUrl = sEmpty

\* the normalized URL as the claim words it
C4_Normalized(url) ==
    IF UrlParses(url) \/ StartsWith(url, sHttp) \/ StartsWith(url, sHttps)
    THEN url
    ELSE sHttps \o url

\* C4: a toggle while closed with a non-empty targetUrl opens the widget without an
\* error: the iframe source is the normalized URL ("example.com" gives
\* "https://example.com"), isOpen is true, the overlay is shown, the label is "Close".
C4_ToggleOpensWithNormalizedUrl ==
    [][(ToggleStep /\ ~isIframeOpen
          /\ clickContext.targetUrl # Null /\ clickContext.targetUrl # sEmpty) =>
          /\ ~lastOp'.alert /\ ~lastOp'.threw
          /\ isIframeOpen'
          /\ overlay'.src = C4_Normalized(clickContext.targetUrl)
          /\ (clickContext.targetUrl = sExampleCom => overlay'.src = sHttps \o sExampleCom)
          /\ "show" \in overlay'.classList
          /\ button'.textContent = sClose]_vars

\* "example.com" was opened as "https://example.com"
C4_Witness ==
    /\ lastOp.op = "click"
    /\ isIframeOpen
    /\ clickContext.targetUrl = sExampleCom
    /\ overlay.src = sHttps \o sExampleCom

\* C5: the resize listener is registered at most once, and exactly when the widget is
\* open and not torn down.
C5_ResizeListenerPaired ==
    /\ Registered(windowListeners, ResizeListener) <= 1
    /\ Registered(windowListeners, ResizeListener) = 1
          <=> (isIframeOpen /\ hostPhase # "destroyed")

\* the widget was torn down while open and the listener is gone
C5_Witness ==
    /\ hostPhase = "destroyed"
    /\ isIframeOpen
    /\ Registered(windowListeners, ResizeListener) = 0

\* C6: at most one button, one overlay container and one iframe are ever created and
\* the click handler is registered at most once: the first refresh creates the UI,
\* later refreshes reuse it.
C6_UiCreatedOnce ==
    LET n == IF isInitialized THEN 1 ELSE 0
    IN  /\ created = [button |-> n, div |-> n, iframe |-> n, clickHandler |-> n]
        /\ button.clickListeners <= 1

\* two refreshes with different configurations have run on the one button
C6_Witness ==
    /\ lastOp.op = "updateView"
    /\ originalButtonText = sGo
    /\ pBackgroundColor \in DOMAIN button.style
    /\ created.button = 1

\* C7: after teardown, from the closed or the open state, the click listener and the
\* resize listener are unregistered and the overlay is detached, and no later click
\* or resize event is handled.
C7_TeardownReleases ==
    hostPhase = "destroyed" =>
        /\ button.clickListeners = 0
        /\ Registered(windowListeners, ResizeListener) = 0
        /\ ~overlay.attached
        /\ lastOp.op \in {"click", "resize"} => ~lastOp.handled

\* a click after a teardown from the open state was not handled
C7_Witness ==
    /\ hostPhase = "destroyed"
    /\ overlay.exists
    /\ isIframeOpen
    /\ lastOp.op = "click"
    /\ ~lastOp.handled

\* C8: teardown of a widget with no button and no overlay raises no error and leaves
\* the widget state unchanged.
C8_TeardownWithoutUi ==
    [][(lastOp'.op = "destroy" /\ ~button.exists /\ ~overlay.exists) =>
          /\ ~lastOp'.threw
          /\ UNCHANGED widgetState]_vars

\* teardown ran on a widget that was constructed and never initialized
C8_Witness ==
    /\ hostPhase = "destroyed"
    /\ lastOp.op = "destroy"
    /\ ~lastOp.threw
    /\ ~container
    /\ ~button.exists

\* C9: isOpen is false initially and only a toggle changes it; teardown is possible
\* from the closed and from the open state.
C9_IsOpenChangedOnlyByToggle ==
    /\ ~isIframeOpen
    /\ [][isIframeOpen' # isIframeOpen => ToggleStep]_vars
    /\ [](hostPhase # "destroyed" => ENABLED Destroy)

\* teardown ran from the open state and left isOpen as it was
C9_Witness ==
    /\ lastOp.op = "destroy"
    /\ isIframeOpen
    /\ overlay.src # sEmpty

\* C10: the button style after refresh(config) depends only on config: it is the
\* style a fresh widget has after its first refresh with that config.
C10_StyleIsFunctionOfConfig ==
    (lastOp.op = "updateView") =>
        LET fresh == applyButtonStyling(createButton(clickContext), clickContext)
        IN  /\ button.style = fresh.style
            /\ button.classList = fresh.classList
\* the properties a custom style string sets
C11_CustomProps(custom) ==
    IF custom = Null \/ custom = sEmpty THEN {}
    ELSE DOMAIN ApplyCustomSegments(EmptyStyle, Split(custom, ";"))

\* the button carries prop with the given value and forced priority
C11_Forced(prop, value) ==
    /\ prop \in DOMAIN button.style
    /\ button.style[prop] = [value |-> value, important |-> TRUE]

\* C11 as stated: after every refresh the width is config.buttonWidth and the height
\* config.buttonHeight (defaults "100px" and "40px"), both with forced priority.
C11_WidthHeightAlwaysForced ==
    (lastOp.op = "updateView") =>
        /\ C11_Forced(pWidth,
               IF clickContext.buttonWidth \in {Null, sEmpty} THEN s100px
               ELSE clickContext.buttonWidth)
        /\ C11_Forced(pHeight,
               IF clickContext.buttonHeight \in {Null, sEmpty} THEN s40px
               ELSE clickContext.buttonHeight)

\* C11 amended: the same, for a width (height) that is not blank and that the custom
\* style string of the same config does not set again; buttonSize "s" with
\* buttonWidth "120px" gives class size-small and forced width "120px".
C11_WidthHeightForced ==
    (lastOp.op = "updateView") =>
        LET w == IF clickContext.buttonWidth \in {Null, sEmpty} THEN s100px
                 ELSE clickContext.buttonWidth
            h == IF clickContext.buttonHeight \in {Null, sEmpty} THEN s40px
                 ELSE clickContext.buttonHeight
            custom == C11_CustomProps(clickContext.buttonCustomStyle)
        IN  /\ (Trim(w) # sEmpty /\ pWidth \notin custom) => C11_Forced(pWidth, w)
            /\ (Trim(h) # sEmpty /\ pHeight \notin custom) => C11_Forced(pHeight, h)
            /\ (clickContext.buttonSize = sSizeS /\ w = s120px) =>
                   "size-small" \in button.classList

\* buttonSize "S" with buttonWidth "120px" was applied
C11_Witness ==
    /\ lastOp.op = "updateView"
    /\ clickContext.buttonSize = sSizeS
    /\ clickContext.buttonWidth = s120px
    /\ "size-small" \in button.classList
    /\ C11_Forced(pWidth, s120px)
\* the size classes the claim assigns to a buttonSize keyword
C16_ClassesFor(size) ==
    LET k == IF size = Null THEN sEmpty ELSE ToLowerCase(size)
    IN  IF k \in {<<"s","m","a","l","l">>, <<"s">>} THEN {"size-small"}
        ELSE IF k \in {<<"m","e","d","i","u","m">>, <<"m">>} THEN {"size-medium"}
        ELSE IF k \in {<<"l","a","r","g","e">>, <<"l">>} THEN {"size-large"}
        ELSE IF k \in {<<"e","x","t","r","a","-","l","a","r","g","e">>, <<"x","l">>}
             THEN {"size-extra-large"}
        ELSE {}

\* C16: after any sequence of refreshes the button carries at most one size class,
\* the one the buttonSize keyword of the latest config maps to (case-insensitive),
\* and none when the keyword is absent or unmatched.
C16_OneSizeClass ==
    (lastOp.op = "updateView") =>
        /\ button.classList
              \cap {"size-small", "size-medium", "size-large", "size-extra-large"}
              = C16_ClassesFor(clickContext.buttonSize)
        /\ Cardinality(button.classList
              \cap {"size-small", "size-medium", "size-large", "size-extra-large"}) <= 1

\* "xl" was applied on a button an earlier refresh had given the custom size "12px"
C16_Witness ==
    /\ lastOp.op = "updateView"
    /\ clickContext.buttonSize = sSizeXl
    /\ "size-extra-large" \in button.classList
    /\ pPadding \in DOMAIN button.style
\* C12: each open schedules exactly one deferred height recomputation; it runs once,
\* eventually, and nothing cancels it, closing and teardown included; the number run
\* never exceeds the number of opens.
C12_TimerOncePerOpen ==
    /\ [](timerRuns + timers = opens)
    /\ [][opens' # opens => (opens' = opens + 1 /\ timers' = timers + 1)]_vars
    /\ [][timers' < timers =>
            (lastOp'.op = "timer" /\ timers' = timers - 1 /\ timerRuns' = timerRuns + 1)]_vars
    /\ \A k \in 1..MaxOpens : (opens >= k) ~> (timerRuns >= k)

\* the deferred recomputation ran after the widget had been closed and torn down
C12_Witness ==
    /\ lastOp.op = "timer"
    /\ hostPhase = "destroyed"
    /\ ~isIframeOpen
    /\ opens >= 1
    /\ timerRuns = opens
    /\ overlay.height # Null
\* s is "#" followed by exactly six hex digits
C13_IsRRGGBB(s) ==
    /\ Len(s) = 7
    /\ s[1] = "#"
    /\ \A i \in 2..7 : HexValue(s[i]) >= 0

\* channel i (1 red, 2 green, 3 blue) of a #RRGGBB string
C13_Channel(s, i) == 16 * HexValue(s[2 * i]) + HexValue(s[2 * i + 1])

C13_Clamp(v) == IF v < 0 THEN 0 ELSE IF v > 255 THEN 255 ELSE v

C14_NonHexUnchanged ==
    (calc.fn = "darkenColor" /\ calc.done /\ ~C13_IsRRGGBB(calc.arg)) =>
        calc.out = calc.arg

\* one segment applied as the claim words it: split at the first colon only
C15_ApplySegment(style, segment) ==
    LET i        == FirstIndex(segment, ":")
        property == IF i = 0 THEN Trim(segment) ELSE Trim(SubSeq(segment, 1, i - 1))
        value    == IF i = 0 THEN sEmpty ELSE Trim(SubSeq(segment, i + 1, Len(segment)))
    IN  IF property # sEmpty /\ value # sEmpty
        THEN [q \in (DOMAIN style) \cup {property} |->
                IF q = property THEN [value |-> value, important |-> FALSE] ELSE style[q]]
        ELSE style

RECURSIVE C15_ApplySegments(_, _)
C15_ApplySegments(style, segments) ==
    IF segments = <<>> THEN style
    ELSE C15_ApplySegments(C15_ApplySegment(style, Head(segments)), Tail(segments))

\* C15: every semicolon-delimited segment is split at its first colon only, the value
\* being the trimmed whole text after it; a segment with an empty property or value
\* is skipped and the other segments are still applied.
C15_SplitAtFirstColon ==
    (calc.fn = "customStyle" /\ calc.done) =>
        calc.out = C15_ApplySegments(EmptyStyle, Split(calc.arg, ";"))
\* C17: the overlay carries "show" exactly when isOpen is true, and the iframe source
\* is non-empty exactly when isOpen is true.
C17_OverlayFollowsIsOpen ==
    /\ ~overlay.exists => ~isIframeOpen
    /\ overlay.exists =>
          /\ ("show" \in overlay.classList) <=> isIframeOpen
          /\ (overlay.src # sEmpty) <=> isIframeOpen

\* a refresh arrived while the widget was open, after a timer had fired
C17_Witness ==
    /\ lastOp.op = "updateView"
    /\ timerRuns >= 1
    /\ isIframeOpen
    /\ "show" \in overlay.classList
    /\ overlay.src = sHttpsAIo

\* C18: a toggle uses the targetUrl of the config passed to the most recent refresh,
\* for the empty-URL check and for the URL it loads.
C18_ToggleReadsLatestConfig ==
    [][(ToggleStep /\ ~isIframeOpen) =>
          IF latestConfig.targetUrl = Null \/ latestConfig.targetUrl = sEmpty
          THEN lastOp'.alert /\ ~isIframeOpen'
          ELSE /\ ~lastOp'.alert
               /\ isIframeOpen'
               /\ overlay'.src = C4_Normalized(latestConfig.targetUrl)]_vars
====





